---------------------------- MODULE Spec2Model ----------------------------
(***************************************************************************)
(* The SFTP channel pools of sshfs.py (_SFTPChannelPool, SFTPHardChannel-  *)
(* Pool, SFTPSoftChannelPool) as a state machine.                          *)
(*                                                                         *)
(* The pools run on one asyncio event loop: code between two awaits is     *)
(* atomic, and every await that really suspends is a point where the other *)
(* coroutines run.  Each action below is the code between two such points. *)
(* A Consumer is a coroutine p that runs `async with pool.get() as ch:`    *)
(* again and again; pc[p] is where it is suspended.                        *)
(***************************************************************************)
EXTENDS Integers, Sequences, FiniteSets, TLC

\* Bounds of the model.
NumProcs == 2
MaxOpen == 2
MaxCap == 1
MaxFailed == 1

\* Program constants.
None == -1
NoChannel == 0
MAX_TIMEOUT == 10800

\* The Consumers: NumProcs of them, and one more for the specification that
\* needs three coroutines inside get() at once.
Procs == 1..(NumProcs + 1)

VARIABLES
    users,             \* the Consumers that use the pool
    policy,            \* "hard" | "soft": the pool class SSHFileSystem picked
    max_channels,      \* self.max_channels (None or an integer)
    active_channels,   \* self.active_channels
    timeout,           \* self.timeout (None or a duration)
    unsafe_terminate,  \* self.unsafe_terminate
    stack,             \* self._stack: the channels entered, in order
    queue,             \* SFTPHardChannelPool._queue: the items
    getters,           \* SFTPHardChannelPool._queue: the coroutines parked in get()
    channels,          \* SFTPSoftChannelPool._channels, in insertion order
    pc,                \* where each Consumer is
    channel,           \* get()'s local channel / least_used_channel
    opened,            \* how many channels start_sftp_client() has returned
    closing,           \* close() is suspended inside self._stack.aclose()
    raised,            \* what the last step raised to its caller, or "none"
    refusals,          \* ChannelOpenErrors caught so far (0, 1, 2 = several)
    refusedAt,         \* active_channels when the last one was caught
    lateOpen,          \* a get() begun after the only refusal so far, and
                       \* before any close(), called start_sftp_client
    closed,            \* close() has run _cleanup()
    fpc,               \* where the file system's coroutine (_mv, or the final
                       \* _async_upload_chunk of an SSHFile) is; "off": none
    upload,            \* it is an SSHFile's upload (else a call of _mv)
    src,               \* _mv's lpath exists
    dst,               \* _mv's rpath has the content
    cp,                \* how _cp_file ended: "none" | "ok" | "failed"
    result             \* how the coroutine ended: "none" | "ok" | its error

poolState == <<users, policy, max_channels, active_channels, timeout,
               unsafe_terminate, stack, queue, getters, channels, pc, channel,
               opened, closing, raised, refusals, refusedAt, lateOpen,
               closed>>

fsState == <<fpc, upload, src, dst, cp, result>>

vars == <<poolState, fsState>>

config == <<users, policy, timeout, unsafe_terminate>>
hardState == <<queue, getters>>
closeState == <<stack, closing, closed>>

-----------------------------------------------------------------------------
\* Helpers.

Range(s) == {s[i] : i \in 1..Len(s)}

Without(s, x) == SelectSeq(s, LAMBDA y : y # x)

\* What a step raises to its caller.
Raise(exc) == raised' = exc

\* The scopes that ended by an exception so far: each left its count behind.
Failed == active_channels - Cardinality({p \in Procs : pc[p] = "holding"})

\* A condition that lets every get() create.
LimitIgnored(max, active) == TRUE

\* _maybe_new_channel's condition.
LimitAllows(max, active) == max = None \/ active < max

\* _maybe_new_channel's except branch: the new hard limit.
FrozenLimit(active) == active

\* collections.Counter, kept in insertion order as the dict keeps it.
Keys(m) == {m[i].ch : i \in 1..Len(m)}

Count(m, c) ==
    IF c \in Keys(m)
    THEN m[CHOOSE i \in 1..Len(m) : m[i].ch = c].n
    ELSE 0

CounterAdd(m, c, d) ==
    IF c \in Keys(m)
    THEN [i \in 1..Len(m) |->
            IF m[i].ch = c THEN [ch |-> c, n |-> m[i].n + d] ELSE m[i]]
    ELSE Append(m, [ch |-> c, n |-> d])

\* heapq.nsmallest(1, items, key=count) or _NO_CHANNELS: the first entry with
\* the smallest count, or the placeholder (None, 1).
LeastUsed(m) ==
    IF m = <<>>
    THEN [ch |-> NoChannel, n |-> 1]
    ELSE m[CHOOSE i \in 1..Len(m) :
               \A j \in 1..Len(m) : m[i].n < m[j].n \/ (m[i].n = m[j].n /\ i <= j)]

Sum(m) == LET RECURSIVE S(_)
              S(k) == IF k = 0 THEN 0 ELSE m[k].n + S(k - 1)
          IN S(Len(m))

-----------------------------------------------------------------------------
\* The state after SSHFileSystem._connect() built the pool.

InitPool ==
    /\ policy \in {"hard", "soft"}
    /\ max_channels \in {None} \cup (1..MaxCap)
    /\ active_channels = 0
    /\ timeout \in IF policy = "hard" THEN {None, MAX_TIMEOUT}
                                     ELSE {MAX_TIMEOUT}
    /\ unsafe_terminate \in BOOLEAN
    /\ stack = <<>>
    /\ queue = <<>>
    /\ getters = <<>>
    /\ channels = <<>>
    /\ pc = [p \in Procs |-> "idle"]
    /\ channel = [p \in Procs |-> NoChannel]
    /\ opened = 0
    /\ closing = FALSE
    /\ raised = "none"
    /\ refusals = 0
    /\ refusedAt = 0
    /\ lateOpen = FALSE
    /\ closed = FALSE

\* No SSHFile is written and _mv is not called: the pool is used alone.
NoFile ==
    /\ fpc = "off"
    /\ upload = FALSE
    /\ src = FALSE
    /\ dst = FALSE
    /\ cp = "none"
    /\ result = "none"

Init == InitPool /\ NoFile /\ users = 1..NumProcs

\* An except branch that lets the error it caught out again.
Reraised(exc) == exc

\* `except ChannelOpenError:` ends without a raise: _maybe_new_channel returns
\* None and nothing comes out of it.
Swallowed(exc) == "none"

-----------------------------------------------------------------------------
\* The record of the refusals: a second one ends the case of exactly one.
Refusal ==
    /\ refusals' = IF refusals = 0 THEN 1 ELSE 2
    /\ refusedAt' = active_channels
    /\ lateOpen' = (refusals = 0 /\ lateOpen)

-----------------------------------------------------------------------------
\* asyncio.Queue as SFTPHardChannelPool uses it (maxsize 0: put never blocks).

\* A get_nowait() that returns the first item and leaves it queued.
DequeueKept(q) == q

\* Queue.get_nowait(): what is left of the items.
Dequeue(q) == Tail(q)

\* A get that returns the item put last.
Newest(q) == q[Len(q)]

\* Queue._get(): `self._queue.popleft()` returns the item put first.
Oldest(q) == Head(q)

\* A cancelled get() that stays registered in _getters.
DeregisterLeaked(g, p) == g

\* Queue.get() cancelled by wait_for's timeout: the getter p leaves _getters.
Deregister(g, p) == Without(g, p)

\* Queue._wakeup_next(_getters): the first parked getter is woken and leaves
\* _getters; it runs again at a later step of the loop.
WakeFirst(g, who) ==
    IF g = <<>>
    THEN who
    ELSE [who EXCEPT ![Head(g)] = "woken"]

\* Queue.get() from its `while self.empty()` test on.  With an item there it
\* returns it.  When wait_for awaits get() inline (timeout None) the caller
\* goes on to `self.active_channels += 1; yield channel` in the same step;
\* when wait_for runs get() as a task of its own (a timeout is set) the item
\* is out of the queue while the caller is still to be resumed ("taken").
\* With no item the getter parks in _getters.
GetItem(p, inline) ==
    IF queue # <<>>
    THEN /\ channel' = [channel EXCEPT ![p] = Oldest(queue)]
         /\ queue' = Dequeue(queue)
         /\ getters' = getters
         /\ pc' = [pc EXCEPT ![p] = IF inline THEN "holding" ELSE "taken"]
         /\ active_channels' = IF inline THEN active_channels + 1
                                         ELSE active_channels
    ELSE /\ getters' = Append(getters, p)
         /\ pc' = [pc EXCEPT ![p] = "parked"]
         /\ UNCHANGED <<queue, channel, active_channels>>

\* `await asyncio.wait_for(self._queue.get(), timeout=self.timeout)`: inline
\* when timeout is None, else get() becomes a task that first runs at a later
\* step of the loop ("wait").
WaitFor(p) ==
    IF timeout = None
    THEN GetItem(p, TRUE)
    ELSE /\ pc' = [pc EXCEPT ![p] = "wait"]
         /\ UNCHANGED <<queue, getters, channel, active_channels>>

-----------------------------------------------------------------------------
\* SFTPHardChannelPool.get

\* get() finds the queue empty and the limit not hit: it suspends inside
\* start_sftp_client().
HardGetNew(p) ==
    /\ policy = "hard"
    /\ pc[p] = "idle"
    /\ queue = <<>>
    /\ LimitAllows(max_channels, active_channels)
    /\ pc' = [pc EXCEPT ![p] = "creating"]
    /\ lateOpen' = (lateOpen \/ (refusals = 1 /\ ~closed))
    /\ Raise("none")
    /\ UNCHANGED <<config, max_channels, active_channels, hardState, channels,
                   channel, opened, closeState, refusals, refusedAt>>

\* get() with a free channel queued, or with the limit hit: no creation, it
\* goes to wait_for.
HardGetWait(p) ==
    /\ policy = "hard"
    /\ pc[p] = "idle"
    /\ ~(queue = <<>> /\ LimitAllows(max_channels, active_channels))
    /\ WaitFor(p)
    /\ Raise("none")
    /\ UNCHANGED <<config, max_channels, channels, opened, closeState,
                   refusals, refusedAt, lateOpen>>

\* start_sftp_client() returned a channel: it is entered on the stack, counted
\* and handed out.  (The Connection grants at most MaxOpen channels.)
HardCreated(p) ==
    /\ policy = "hard"
    /\ pc[p] = "creating"
    /\ opened < MaxOpen
    /\ opened' = opened + 1
    /\ stack' = Append(stack, opened + 1)
    /\ channel' = [channel EXCEPT ![p] = opened + 1]
    /\ active_channels' = active_channels + 1
    /\ pc' = [pc EXCEPT ![p] = "holding"]
    /\ Raise("none")
    /\ UNCHANGED <<config, max_channels, hardState, channels, closing,
                   closed, refusals, refusedAt, lateOpen>>

\* start_sftp_client() raised ChannelOpenError: the limit becomes the current
\* active_channels, no channel is returned and get() goes to wait_for.
HardRefused(p) ==
    /\ policy = "hard"
    /\ pc[p] = "creating"
    /\ max_channels' = FrozenLimit(active_channels)
    /\ Refusal
    /\ WaitFor(p)
    /\ Raise(Swallowed("ChannelOpenError"))
    /\ UNCHANGED <<config, channels, opened, closeState>>

\* start_sftp_client() raised anything else: it propagates out of get().
OpenFailed(p) ==
    /\ pc[p] = "creating"
    /\ pc' = [pc EXCEPT ![p] = "idle"]
    /\ channel' = [channel EXCEPT ![p] = NoChannel]
    /\ Raise("OpenError")
    /\ UNCHANGED <<config, max_channels, active_channels, hardState, channels,
                   opened, closeState, refusals, refusedAt, lateOpen>>

\* Queue.get() runs: as wait_for's task when it first runs, or after a put
\* woke it.
HardResume(p) ==
    /\ policy = "hard"
    /\ pc[p] \in {"wait", "woken"}
    /\ GetItem(p, timeout = None)
    /\ Raise("none")
    /\ UNCHANGED <<config, max_channels, channels, opened, closeState,
                   refusals, refusedAt, lateOpen>>

\* wait_for returns the item its task got: `self.active_channels += 1` and
\* the channel is yielded.
HardEnter(p) ==
    /\ policy = "hard"
    /\ pc[p] = "taken"
    /\ active_channels' = active_channels + 1
    /\ pc' = [pc EXCEPT ![p] = "holding"]
    /\ Raise("none")
    /\ UNCHANGED <<config, max_channels, hardState, channels, channel, opened,
                   closeState, refusals, refusedAt, lateOpen>>

\* wait_for's timer fires before get() returned (the loop runs the task once
\* before any timer, so get() has parked): the task is cancelled, get() takes
\* p out of _getters (and, had a put woken it, passes the wake-up on while an
\* item is there), and TimeoutError comes out of get().
HardTimeout(p) ==
    /\ policy = "hard"
    /\ timeout # None
    /\ pc[p] \in {"parked", "woken"}
    /\ LET g == Deregister(getters, p)
           idle == [pc EXCEPT ![p] = "idle"]
           pass == pc[p] = "woken" /\ queue # <<>>
       IN /\ getters' = IF pass /\ g # <<>> THEN Tail(g) ELSE g
          /\ pc' = IF pass THEN WakeFirst(g, idle) ELSE idle
    /\ Raise("TimeoutError")
    /\ UNCHANGED <<config, max_channels, active_channels, queue, channels,
                   channel, opened, closeState, refusals, refusedAt, lateOpen>>

\* The Consumer's scope ends normally: the code after the yield runs.
HardRelease(p) ==
    /\ policy = "hard"
    /\ pc[p] = "holding"
    /\ active_channels' = active_channels - 1
    /\ queue' = Append(queue, channel[p])
    /\ getters' = IF getters = <<>> THEN getters ELSE Tail(getters)
    /\ pc' = WakeFirst(getters, [pc EXCEPT ![p] = "idle"])
    /\ channel' = [channel EXCEPT ![p] = NoChannel]
    /\ Raise("none")
    /\ UNCHANGED <<config, max_channels, channels, opened, closeState,
                   refusals, refusedAt, lateOpen>>

\* The Consumer's scope ends by an exception: it is thrown into the generator
\* at the yield, which has no try/finally around it, so none of the code
\* after the yield runs (either policy).
ScopeFailed(p) ==
    /\ pc[p] = "holding"
    /\ Failed < MaxFailed
    /\ pc' = [pc EXCEPT ![p] = "idle"]
    /\ channel' = [channel EXCEPT ![p] = NoChannel]
    /\ Raise("ScopeError")
    /\ UNCHANGED <<config, max_channels, active_channels, hardState, channels,
                   opened, closeState, refusals, refusedAt, lateOpen>>

-----------------------------------------------------------------------------
\* SFTPSoftChannelPool.get

\* A hand-out that counts the channel's use and not the pool's.
SoftHandOutUncounted(p, c) ==
    /\ channels' = CounterAdd(channels, c, 1)
    /\ active_channels' = active_channels
    /\ channel' = [channel EXCEPT ![p] = c]
    /\ pc' = [pc EXCEPT ![p] = "holding"]

\* `self._channels[ch] += 1; self.active_channels += 1; yield ch`
SoftHandOut(p, c) ==
    /\ channels' = CounterAdd(channels, c, 1)
    /\ active_channels' = active_channels + 1
    /\ channel' = [channel EXCEPT ![p] = c]
    /\ pc' = [pc EXCEPT ![p] = "holding"]

\* `raise ValueError("Can't create any SFTP connections!")`
SoftNoChannels(p) ==
    /\ pc' = [pc EXCEPT ![p] = "idle"]
    /\ channel' = [channel EXCEPT ![p] = NoChannel]
    /\ UNCHANGED <<channels, active_channels>>

\* A test that also sends a get() to creation when a channel is free.
InUseOrFree(n) == n >= 0

\* `if num_connections > 0`: the least used channel (or the placeholder) is
\* in use, so get() calls _maybe_new_channel.
InUse(n) == n > 0

\* The least used channel is used by nobody: it is handed out at once.
SoftGetFree(p) ==
    /\ policy = "soft"
    /\ pc[p] = "idle"
    /\ ~InUse(LeastUsed(channels).n)
    /\ SoftHandOut(p, LeastUsed(channels).ch)
    /\ Raise("none")
    /\ UNCHANGED <<config, max_channels, hardState, opened, closeState,
                   refusals, refusedAt, lateOpen>>

\* Every channel is in use (or there is none) and the limit is not hit: get()
\* suspends inside start_sftp_client(), keeping the channel it found.
SoftGetNew(p) ==
    /\ policy = "soft"
    /\ pc[p] = "idle"
    /\ InUse(LeastUsed(channels).n)
    /\ LimitAllows(max_channels, active_channels)
    /\ pc' = [pc EXCEPT ![p] = "creating"]
    /\ channel' = [channel EXCEPT ![p] = LeastUsed(channels).ch]
    /\ lateOpen' = (lateOpen \/ (refusals = 1 /\ ~closed))
    /\ Raise("none")
    /\ UNCHANGED <<config, max_channels, active_channels, hardState, channels,
                   opened, closeState, refusals, refusedAt>>

\* Every channel is in use and the limit is hit: _maybe_new_channel returns
\* None without suspending and the least used channel is shared.
SoftGetShare(p) ==
    /\ policy = "soft"
    /\ pc[p] = "idle"
    /\ InUse(LeastUsed(channels).n)
    /\ ~LimitAllows(max_channels, active_channels)
    /\ LeastUsed(channels).ch # NoChannel
    /\ SoftHandOut(p, LeastUsed(channels).ch)
    /\ Raise("none")
    /\ UNCHANGED <<config, max_channels, hardState, opened, closeState,
                   refusals, refusedAt, lateOpen>>

\* There is no channel and the limit is hit: ValueError.
SoftGetNone(p) ==
    /\ policy = "soft"
    /\ pc[p] = "idle"
    /\ InUse(LeastUsed(channels).n)
    /\ ~LimitAllows(max_channels, active_channels)
    /\ LeastUsed(channels).ch = NoChannel
    /\ SoftNoChannels(p)
    /\ Raise("ValueError")
    /\ UNCHANGED <<config, max_channels, hardState, opened, closeState,
                   refusals, refusedAt, lateOpen>>

\* start_sftp_client() returned a channel: it replaces the one found before.
SoftCreated(p) ==
    /\ policy = "soft"
    /\ pc[p] = "creating"
    /\ opened < MaxOpen
    /\ opened' = opened + 1
    /\ stack' = Append(stack, opened + 1)
    /\ SoftHandOut(p, opened + 1)
    /\ Raise("none")
    /\ UNCHANGED <<config, max_channels, hardState, closing, closed,
                   refusals, refusedAt, lateOpen>>

\* start_sftp_client() raised ChannelOpenError: the limit becomes the current
\* active_channels and get() goes on with the channel it found before it
\* suspended, or raises ValueError if it had found none.
SoftRefused(p) ==
    /\ policy = "soft"
    /\ pc[p] = "creating"
    /\ max_channels' = FrozenLimit(active_channels)
    /\ Refusal
    /\ IF channel[p] = NoChannel
       THEN SoftNoChannels(p) /\ Raise("ValueError")
       ELSE SoftHandOut(p, channel[p]) /\ Raise(Swallowed("ChannelOpenError"))
    /\ UNCHANGED <<config, hardState, opened, closeState>>

\* The Consumer's scope ends normally: the code after the yield runs.
SoftRelease(p) ==
    /\ policy = "soft"
    /\ pc[p] = "holding"
    /\ channels' = CounterAdd(channels, channel[p], -1)
    /\ active_channels' = active_channels - 1
    /\ pc' = [pc EXCEPT ![p] = "idle"]
    /\ channel' = [channel EXCEPT ![p] = NoChannel]
    /\ Raise("none")
    /\ UNCHANGED <<config, max_channels, hardState, opened, closeState,
                   refusals, refusedAt, lateOpen>>

-----------------------------------------------------------------------------
\* _SFTPChannelPool.close, called by SSHFileSystem._finalize

\* The test with the flag read the wrong way round.
LeakCheckInverted(active, unsafe) == active # 0 /\ unsafe

\* `if self.active_channels and not self.unsafe_terminate`
LeakCheck(active, unsafe) == active # 0 /\ ~unsafe

\* self._cleanup(): the hard pool empties its queue, the soft pool clears
\* its counter.
CleanedQueue(q) == IF policy = "hard" THEN <<>> ELSE q

CleanedChannels(m) == IF policy = "soft" THEN <<>> ELSE m

\* close() raises RuntimeError before it touches anything.
CloseLeak ==
    /\ ~closing
    /\ LeakCheck(active_channels, unsafe_terminate)
    /\ Raise("RuntimeError")
    /\ UNCHANGED <<config, max_channels, active_channels, hardState, channels,
                   pc, channel, opened, closeState, refusals, refusedAt,
                   lateOpen>>

\* (_finalize runs once: a close() that got this far is not called again.)
\* close() runs _cleanup() and enters self._stack.aclose(), which returns at
\* once when no channel is on the stack and else suspends in the exits of
\* the channels.
CloseBegin ==
    /\ ~closing
    /\ ~closed
    /\ ~LeakCheck(active_channels, unsafe_terminate)
    /\ queue' = CleanedQueue(queue)
    /\ channels' = CleanedChannels(channels)
    /\ closed' = TRUE
    /\ closing' = (stack # <<>>)
    /\ Raise("none")
    /\ UNCHANGED <<config, max_channels, active_channels, getters, pc,
                   channel, opened, stack, refusals, refusedAt, lateOpen>>

\* aclose() has awaited the exit of every channel on the stack, last entered
\* first, those entered meanwhile included, and returns; or it raises what an
\* exit raised, and nothing in close() catches that.  (The exits are taken as
\* one suspension: nothing in the pool reads the stack while they run.)
CloseEnd ==
    /\ closing
    /\ stack' = <<>>
    /\ closing' = FALSE
    /\ \E broken \in BOOLEAN :
         Raise(IF broken THEN "TeardownError" ELSE "none")
    /\ UNCHANGED <<config, max_channels, active_channels, hardState, channels,
                   pc, channel, opened, closed, refusals, refusedAt, lateOpen>>

-----------------------------------------------------------------------------

Next ==
    \/ \E p \in users : HardGetNew(p) /\ UNCHANGED fsState
    \/ \E p \in users : HardGetWait(p) /\ UNCHANGED fsState
    \/ \E p \in users : HardCreated(p) /\ UNCHANGED fsState
    \/ \E p \in users : HardRefused(p) /\ UNCHANGED fsState
    \/ \E p \in users : OpenFailed(p) /\ UNCHANGED fsState
    \/ \E p \in users : HardResume(p) /\ UNCHANGED fsState
    \/ \E p \in users : HardEnter(p) /\ UNCHANGED fsState
    \/ \E p \in users : HardTimeout(p) /\ UNCHANGED fsState
    \/ \E p \in users : HardRelease(p) /\ UNCHANGED fsState
    \/ \E p \in users : ScopeFailed(p) /\ UNCHANGED fsState
    \/ \E p \in users : SoftGetFree(p) /\ UNCHANGED fsState
    \/ \E p \in users : SoftGetNew(p) /\ UNCHANGED fsState
    \/ \E p \in users : SoftGetShare(p) /\ UNCHANGED fsState
    \/ \E p \in users : SoftGetNone(p) /\ UNCHANGED fsState
    \/ \E p \in users : SoftCreated(p) /\ UNCHANGED fsState
    \/ \E p \in users : SoftRefused(p) /\ UNCHANGED fsState
    \/ \E p \in users : SoftRelease(p) /\ UNCHANGED fsState
    \/ CloseLeak /\ UNCHANGED fsState
    \/ CloseBegin /\ UNCHANGED fsState
    \/ CloseEnd /\ UNCHANGED fsState

\* Both policies, NumProcs Consumers.
Spec == Init /\ [][Next]_vars

\* The same pools used by one more Consumer.
InitRace == InitPool /\ NoFile /\ users = Procs

SpecRace == InitRace /\ [][Next]_vars

\* SFTPHardChannelPool alone.
InitHard == Init /\ policy = "hard"

NextHard ==
    \/ \E p \in users : HardGetNew(p) /\ UNCHANGED fsState
    \/ \E p \in users : HardGetWait(p) /\ UNCHANGED fsState
    \/ \E p \in users : HardCreated(p) /\ UNCHANGED fsState
    \/ \E p \in users : HardRefused(p) /\ UNCHANGED fsState
    \/ \E p \in users : OpenFailed(p) /\ UNCHANGED fsState
    \/ \E p \in users : HardResume(p) /\ UNCHANGED fsState
    \/ \E p \in users : HardEnter(p) /\ UNCHANGED fsState
    \/ \E p \in users : HardTimeout(p) /\ UNCHANGED fsState
    \/ \E p \in users : HardRelease(p) /\ UNCHANGED fsState
    \/ \E p \in users : ScopeFailed(p) /\ UNCHANGED fsState
    \/ CloseLeak /\ UNCHANGED fsState
    \/ CloseBegin /\ UNCHANGED fsState
    \/ CloseEnd /\ UNCHANGED fsState

SpecHard == InitHard /\ [][NextHard]_vars

\* The event loop runs every task that is ready and every timer that is due:
\* a get() task that was created or woken is resumed, and the timer wait_for
\* armed for timeout seconds fires.
SpecHardLive ==
    /\ SpecHard
    /\ \A p \in Procs :
         /\ WF_vars(HardResume(p) /\ UNCHANGED fsState)
         /\ WF_vars(HardTimeout(p) /\ UNCHANGED fsState)

\* SFTPSoftChannelPool alone.
InitSoft == Init /\ policy = "soft"

NextSoft ==
    \/ \E p \in users : SoftGetFree(p) /\ UNCHANGED fsState
    \/ \E p \in users : SoftGetNew(p) /\ UNCHANGED fsState
    \/ \E p \in users : SoftGetShare(p) /\ UNCHANGED fsState
    \/ \E p \in users : SoftGetNone(p) /\ UNCHANGED fsState
    \/ \E p \in users : SoftCreated(p) /\ UNCHANGED fsState
    \/ \E p \in users : SoftRefused(p) /\ UNCHANGED fsState
    \/ \E p \in users : OpenFailed(p) /\ UNCHANGED fsState
    \/ \E p \in users : SoftRelease(p) /\ UNCHANGED fsState
    \/ \E p \in users : ScopeFailed(p) /\ UNCHANGED fsState
    \/ CloseLeak /\ UNCHANGED fsState
    \/ CloseBegin /\ UNCHANGED fsState
    \/ CloseEnd /\ UNCHANGED fsState

SpecSoft == InitSoft /\ [][NextSoft]_vars

-----------------------------------------------------------------------------
\* SSHFileSystem._mv and the final upload of an SSHFile opened for writing.
\* One coroutine runs them; it uses the pool through two of the scopes above:
\* Writer is the get() that _async_open_file enters on the file's stack, and
\* Mover is the get() of _mv and then of _rm_file.

Writer == 1
Mover == 2

\* One step of `self._pool.get()` entered by scope p, up to the yield or to
\* the error that comes out of it.
GetStep(p) ==
    \/ HardGetNew(p) \/ HardGetWait(p) \/ HardCreated(p) \/ HardRefused(p)
    \/ HardResume(p) \/ HardEnter(p) \/ HardTimeout(p) \/ OpenFailed(p)
    \/ SoftGetFree(p) \/ SoftGetNew(p) \/ SoftGetShare(p) \/ SoftGetNone(p)
    \/ SoftCreated(p) \/ SoftRefused(p)

\* The scope p is left normally: the code after get()'s yield runs.
Release(p) == HardRelease(p) \/ SoftRelease(p)

\* Where the coroutine is after a step of scope p's get(): at `next` once the
\* channel is yielded, ended by the error if get() raised, else still in it.
AfterGet(p, next) ==
    /\ fpc' = IF pc'[p] = "holding" THEN next
              ELSE IF pc'[p] = "idle" THEN "done" ELSE fpc
    /\ result' = IF pc'[p] = "idle" THEN raised' ELSE result
    /\ UNCHANGED <<upload, src, dst, cp>>

\* _mv returns: an upload goes on to _async_close_file, a call of _mv is over.
Returned ==
    /\ fpc' = IF upload THEN "closefile" ELSE "done"
    /\ result' = IF upload THEN result ELSE "ok"

\* _async_upload_chunk: `self._file = await self._async_open_file()`, in it
\* `enter_async_context(self.fs._pool.get())`.
OpenGet ==
    /\ fpc = "open"
    /\ GetStep(Writer)
    /\ AfterGet(Writer, "write")

\* channel.open() and the write of the buffer succeed, and _commit calls
\* fs._mv(self._location, self.path); or one of them raises, and the channel
\* stays on the file's stack.
FileWritten ==
    /\ fpc = "write"
    /\ \E ok \in BOOLEAN :
         /\ fpc' = IF ok THEN "mv" ELSE "done"
         /\ result' = IF ok THEN result ELSE "IOError"
    /\ UNCHANGED <<poolState, upload, src, dst, cp>>

\* _mv: `async with self._pool.get() as channel`
MvGet ==
    /\ fpc = "mv"
    /\ GetStep(Mover)
    /\ AfterGet(Mover, "rename")

\* channel.posix_rename() succeeded: _mv returns from inside the scope.
Renamed ==
    /\ fpc = "rename"
    /\ Release(Mover)
    /\ src' = FALSE
    /\ dst' = TRUE
    /\ Returned
    /\ UNCHANGED <<upload, cp>>

\* channel.posix_rename() raised SFTPOpUnsupported: it is suppressed, the
\* scope is left normally and _mv goes on to _cp_file.
RenameUnsupported ==
    /\ fpc = "rename"
    /\ Release(Mover)
    /\ fpc' = "cp"
    /\ UNCHANGED <<upload, src, dst, cp, result>>

\* channel.posix_rename() raised another error: it leaves the scope and _mv.
RenameFailed ==
    /\ fpc = "rename"
    /\ ScopeFailed(Mover)
    /\ fpc' = "done"
    /\ result' = "RenameError"
    /\ UNCHANGED <<upload, src, dst, cp>>

\* _cp_file: `await self.client.run(cmd, check=True)` returns or raises, and
\* `try: ... finally: await self._rm_file(lpath)` goes to _rm_file either way.
Copied ==
    /\ fpc = "cp"
    /\ \E ok \in BOOLEAN :
         /\ cp' = IF ok THEN "ok" ELSE "failed"
         /\ dst' = ok
    /\ fpc' = "rm"
    /\ UNCHANGED <<poolState, upload, src, result>>

\* _rm_file: `async with self._pool.get() as channel`
RmGet ==
    /\ fpc = "rm"
    /\ GetStep(Mover)
    /\ AfterGet(Mover, "unlink")

\* channel.unlink() succeeded: the finally block is over, and what _cp_file
\* raised, if it did, goes on to the caller.
Unlinked ==
    /\ fpc = "unlink"
    /\ Release(Mover)
    /\ src' = FALSE
    /\ IF cp = "failed"
       THEN fpc' = "done" /\ result' = "CopyError"
       ELSE Returned
    /\ UNCHANGED <<upload, dst, cp>>

\* channel.unlink() raised: its error is what comes out of _mv.
UnlinkFailed ==
    /\ fpc = "unlink"
    /\ ScopeFailed(Mover)
    /\ fpc' = "done"
    /\ result' = "UnlinkError"
    /\ UNCHANGED <<upload, src, dst, cp>>

\* _async_close_file: the file's stack exits the file and then the pool's
\* scope, and _async_upload_chunk returns True.
FileClosed ==
    /\ fpc = "closefile"
    /\ Release(Writer)
    /\ fpc' = "done"
    /\ result' = "ok"
    /\ UNCHANGED <<upload, src, dst, cp>>

\* A call of _mv, or the final upload of a file, on a pool nobody else uses.
InitFile ==
    /\ InitPool
    /\ users = {Writer, Mover}
    /\ upload \in BOOLEAN
    /\ fpc = IF upload THEN "open" ELSE "mv"
    /\ src = TRUE
    /\ dst = FALSE
    /\ cp = "none"
    /\ result = "none"

NextFile ==
    \/ OpenGet
    \/ FileWritten
    \/ MvGet
    \/ Renamed
    \/ RenameUnsupported
    \/ RenameFailed
    \/ Copied
    \/ RmGet
    \/ Unlinked
    \/ UnlinkFailed
    \/ FileClosed

SpecFile == InitFile /\ [][NextFile]_vars

-----------------------------------------------------------------------------
\* The claims.

Idle == \A p \in Procs : pc[p] = "idle"

Held(p) == pc[p] \in {"taken", "holding"}

\* C1: once every holder's scope has ended, by success or by failure (and no
\* close() has emptied the pool), active_channels is 0 and no channel is
\* checked out: the hard pool has every channel it opened back in its queue,
\* the soft pool has every usage counter at 0.
C1_ReleasedOnEveryExit ==
    (Idle /\ ~closed) =>
        /\ active_channels = 0
        /\ policy = "hard" => Range(queue) = 1..opened
        /\ policy = "soft" => \A i \in 1..Len(channels) : channels[i].n = 0

\* C2: in the hard pool no channel is with two Consumers at once, no channel
\* is both queued and with a Consumer, and no channel is queued twice.
C2_Exclusive ==
    /\ \A p, q \in Procs :
         (p # q /\ Held(p) /\ Held(q)) => channel[p] # channel[q]
    /\ \A p \in Procs : Held(p) => channel[p] \notin Range(queue)
    /\ Cardinality(Range(queue)) = Len(queue)

\* C2's case: one Consumer holds a channel while another is handed a
\* released channel out of the queue.
C2_Witness ==
    \E p, q \in Procs :
        /\ p # q
        /\ pc[p] = "holding"
        /\ pc[q] = "taken"
        /\ channel[p] # channel[q]

\* C3: in the hard pool with capacity N (max_channels as configured, which it
\* still is while no creation was refused), active_channels never exceeds N.
C3_ActiveWithinCapacity ==
    (policy = "hard" /\ max_channels # None /\ refusals = 0) =>
        active_channels <= max_channels

\* C4: once max_channels is set, no step of the pool increases it.
C4_CapacityNeverGrows ==
    [][max_channels # None =>
           (max_channels' # None /\ max_channels' <= max_channels)]_vars

\* C5: after exactly one refusal, max_channels is the active_channels seen
\* when it was caught, and no get() that began after it has called
\* start_sftp_client().
C5_NoCreationAfterRefusal ==
    refusals = 1 => (max_channels = refusedAt /\ ~lateOpen)

\* C6: when the soft pool hands a channel out (before any close()), that
\* channel's counter, before the increment, is at most the counter of every
\* channel in the map.
C6_LeastUsedAtHandOut ==
    [][\A p \in Procs :
          (policy = "soft" /\ ~closed /\ pc[p] # "holding" /\ pc'[p] = "holding")
              => \A c \in Keys(channels) :
                    Count(channels, channel'[p]) <= Count(channels, c)]_vars

\* C7: in the soft pool, until close() clears the map, the usage counters add
\* up to active_channels.
C7_CountersAddUp ==
    (policy = "soft" /\ ~closed) => Sum(channels) = active_channels

\* C7's case: after a refused creation two Consumers share the one channel.
C7_Witness ==
    /\ policy = "soft"
    /\ ~closed
    /\ refusals > 0
    /\ Len(channels) = 1
    /\ active_channels = 2

\* The hard-pool acquisitions that wait for an item inside wait_for.
Waiting(p) == pc[p] \in {"parked", "woken"}

\* C8: in the hard pool with a timeout set, an acquisition waiting inside
\* wait_for does not wait forever; the step that raises TimeoutError leaves
\* active_channels and the queue as they were and the getter out of _getters;
\* and _getters only ever holds acquisitions that are parked in get().
C8_TimeoutLeavesNothing ==
    /\ [][\A p \in Procs :
            (raised' = "TimeoutError" /\ Waiting(p) /\ pc'[p] = "idle")
                => /\ active_channels' = active_channels
                   /\ queue' = queue
                   /\ p \notin Range(getters')]_vars
    /\ [](\A p \in Procs : p \in Range(getters) => pc[p] = "parked")
    /\ \A p \in Procs : (timeout # None /\ Waiting(p)) ~> ~Waiting(p)

\* C8's case: the limit is frozen at 0, nothing is queued, and the acquisition
\* that was refused its channel has just timed out.
C8_Witness ==
    /\ policy = "hard"
    /\ raised = "TimeoutError"
    /\ max_channels = 0
    /\ queue = <<>>
    /\ getters = <<>>
    /\ active_channels = 0

\* A step in which a call of close() returns or raises after its cleanup.
CloseCompletes == (closing /\ ~closing') \/ (~closed /\ closed' /\ ~closing')

\* C9: with unsafe_terminate set, close() completes without raising, and when
\* it does every channel has been exited and the queue and the counter are
\* empty.
C9_ForcefulCloseCompletes ==
    [][(unsafe_terminate /\ CloseCompletes) =>
           /\ raised' = "none"
           /\ stack' = <<>>
           /\ queue' = <<>>
           /\ channels' = <<>>]_vars

\* C10: without unsafe_terminate, while active_channels > 0 no close() gets
\* to its cleanup; the close() that raises RuntimeError changes nothing; it
\* is raised only then; and with active_channels back at 0 close() can go on.
C10_StrictCloseChangesNothing ==
    /\ [][(~unsafe_terminate /\ active_channels > 0) =>
              ~(~closed /\ closed')]_vars
    /\ [][raised' = "RuntimeError" =>
              UNCHANGED <<max_channels, active_channels, stack, queue,
                          getters, channels, pc, channel, closing, closed>>]_vars
    /\ [](raised = "RuntimeError" => (~unsafe_terminate /\ active_channels > 0))
    /\ []((~unsafe_terminate /\ active_channels = 0 /\ ~closing /\ ~closed)
              => ENABLED CloseBegin)

\* C10's case: a close() has just been refused with a channel open and held.
C10_Witness ==
    /\ raised = "RuntimeError"
    /\ ~unsafe_terminate
    /\ active_channels > 0
    /\ stack # <<>>
    /\ ~closed

\* C11: no step lets ChannelOpenError out; the get() whose creation was
\* refused goes on to wait_for (hard) or is handed the channel it had found
\* (soft), or, having found none, raises ValueError; and the step in which any
\* other error of start_sftp_client() comes out of get() leaves max_channels,
\* active_channels, the queue, the getters, the counter and the stack as they
\* were.
C11_RefusalNotSurfaced ==
    /\ [](raised # "ChannelOpenError")
    /\ [][\A p \in Procs :
            (pc[p] = "creating" /\ pc'[p] # "creating"
                                /\ refusals' # refusals) =>
                IF policy = "hard"
                THEN /\ pc'[p] \in {"wait", "parked", "holding"}
                     /\ raised' = "none"
                ELSE \/ /\ pc'[p] = "holding"
                        /\ channel'[p] = channel[p]
                        /\ channel[p] # NoChannel
                        /\ raised' = "none"
                     \/ /\ pc'[p] = "idle"
                        /\ channel[p] = NoChannel
                        /\ raised' = "ValueError"]_vars
    /\ [][raised' = "OpenError" =>
              UNCHANGED <<max_channels, active_channels, queue, getters,
                          channels, stack, opened>>]_vars

\* C11's case: the hard pool's only refusal so far was swallowed and the
\* get() it happened in is inside wait_for.
C11_Witness ==
    /\ policy = "hard"
    /\ refusals = 1
    /\ raised = "none"
    /\ \E p \in Procs : pc[p] \in {"wait", "parked"}
    /\ \A p \in Procs : pc[p] \notin {"creating", "holding", "taken", "woken"}

\* C12: the soft pool's get() raises ValueError only when the counter holds
\* no channel at that moment, and the step that raises it leaves
\* active_channels and the counter as they were.
C12_NoChannelsOnlyWhenNone ==
    [][(policy = "soft" /\ raised' = "ValueError") =>
           /\ channels = <<>>
           /\ UNCHANGED <<active_channels, channels>>]_vars

\* C13 as claimed: in the soft pool, whenever max_channels is set,
\* active_channels is at most max_channels, and it is never negative.
C13_SoftActiveWithinCapacity ==
    policy = "soft" =>
        /\ active_channels >= 0
        /\ max_channels # None => active_channels <= max_channels

\* C13 as amended: in the soft pool active_channels is never negative, and
\* max_channels limits the creation of channels, not their sharing: a get()
\* enters start_sftp_client() only when max_channels is unset or above
\* active_channels (or is handed a channel nobody uses), and a get() that
\* finds the limit hit is handed an existing channel or raises ValueError in
\* the same step.
C13_SoftLimitBoundsCreation ==
    /\ [](policy = "soft" => active_channels >= 0)
    /\ [][\A p \in Procs :
            (policy = "soft" /\ pc[p] = "idle" /\ pc'[p] # "idle") =>
                IF max_channels = None \/ active_channels < max_channels
                THEN \/ pc'[p] = "creating"
                     \/ /\ pc'[p] = "holding"
                        /\ channel'[p] \in Keys(channels)
                        /\ Count(channels, channel'[p]) <= 0
                ELSE /\ pc'[p] = "holding"
                     /\ channel'[p] \in Keys(channels)]_vars
    /\ [][(policy = "soft" /\ pc' = pc /\ raised' = "ValueError") =>
              (max_channels # None /\ active_channels >= max_channels)]_vars

\* C13's case: the limit is 1 as configured and two Consumers share the one
\* channel.
C13_Witness ==
    /\ policy = "soft"
    /\ refusals = 0
    /\ max_channels = 1
    /\ opened = 1
    /\ active_channels = 2
    /\ Len(channels) = 1
    /\ channels[1].n = 2

\* C14: in both pools, whenever max_channels is set, the channels that were
\* opened and not yet exited (those on the stack) are at most max_channels.
C14_OpenWithinCapacity ==
    max_channels # None => Len(stack) <= max_channels

\* C15: the hard pool's queue is first in, first out.  A release puts the
\* channel at the tail; a get() that is handed a channel without one being
\* opened receives the head, the rest staying in order; a get() that begins
\* while a channel is queued never calls start_sftp_client(): it takes the
\* head at once (no timeout) or goes to wait_for (timeout set).
C15_QueueIsFifo ==
    /\ [][\A p \in Procs :
            (policy = "hard" /\ pc[p] = "holding" /\ pc'[p] = "idle"
                             /\ raised' = "none")
                => queue' = Append(queue, channel[p])]_vars
    /\ [][\A p \in Procs :
            (policy = "hard" /\ ~Held(p) /\ Held(p)' /\ opened' = opened)
                => /\ queue # <<>>
                   /\ channel'[p] = queue[1]
                   /\ queue' = SubSeq(queue, 2, Len(queue))]_vars
    /\ [][\A p \in Procs :
            (policy = "hard" /\ pc[p] = "idle" /\ pc'[p] # "idle"
                             /\ queue # <<>>)
                => /\ opened' = opened
                   /\ pc'[p] = IF timeout = None THEN "holding" ELSE "wait"
         ]_vars

\* C15's case: the limit is 1 as configured, the one channel was released,
\* and wait_for's task was handed it out of the queue with no other opened.
C15_Witness ==
    /\ policy = "hard"
    /\ refusals = 0
    /\ max_channels = 1
    /\ opened = 1
    /\ queue = <<>>
    /\ \E p \in Procs : pc[p] = "taken" /\ channel[p] = 1
    /\ ~closed

\* C16: the soft pool's get() enters start_sftp_client() only if, when it
\* begins, the counter is empty or every channel in it is in use; a get()
\* that begins while some channel is used by nobody opens none and is handed
\* such a channel in the same step.  So of non-overlapping cycles with
\* max_channels unset the first opens a channel, and each one that begins
\* after it (every Consumer idle, nothing leaked, no close()) is handed a
\* channel that is there already.
C16_CreateOnlyWhenAllInUse ==
    /\ [][\A p \in Procs :
            (policy = "soft" /\ pc[p] = "idle" /\ pc'[p] = "creating")
                => \A c \in Keys(channels) : Count(channels, c) > 0]_vars
    /\ [][\A p \in Procs :
            (policy = "soft" /\ pc[p] = "idle" /\ pc'[p] # "idle"
                 /\ \E c \in Keys(channels) : Count(channels, c) <= 0)
                => /\ pc'[p] = "holding"
                   /\ opened' = opened
                   /\ channel'[p] \in Keys(channels)
                   /\ Count(channels, channel'[p]) <= 0]_vars
    /\ [][\A p \in Procs :
            (policy = "soft" /\ Idle /\ pc'[p] # "idle" /\ ~closed
                 /\ active_channels = 0 /\ max_channels = None)
                => IF opened = 0
                   THEN pc'[p] = "creating"
                   ELSE /\ pc'[p] = "holding"
                        /\ opened' = opened
                        /\ channel'[p] \in Keys(channels)]_vars

\* C16's case: max_channels is unset, the only channel is in use, and the
\* get() that began then is inside start_sftp_client().
C16_Witness ==
    /\ policy = "soft"
    /\ max_channels = None
    /\ Len(channels) = 1
    /\ channels[1].n = 1
    /\ \E p, q \in Procs :
         /\ pc[p] = "holding"
         /\ pc[q] = "creating"
         /\ channel[q] = channel[p]
    /\ ~closed

\* C17: no entry of the soft pool's counter is negative, also after a close()
\* with unsafe_terminate cleared it while Consumers held channels.
C17_NoNegativeCount ==
    policy = "soft" => \A i \in 1..Len(channels) : channels[i].n >= 0

\* The channels that close() has exited: once aclose() is over, every channel
\* that was opened and is not on the stack.
TornDown == IF closed /\ ~closing THEN (1..opened) \ Range(stack) ELSE {}

\* C19: once a close() with unsafe_terminate has completed, the hard pool's
\* queue holds no channel that it exited, and no get() is handed one.
C19_NoTornDownChannelReused ==
    /\ []((policy = "hard" /\ unsafe_terminate)
             => Range(queue) \cap TornDown = {})
    /\ [][\A p \in Procs :
            (policy = "hard" /\ unsafe_terminate /\ ~Held(p) /\ Held(p)')
                => channel'[p] \notin TornDown]_vars

\* C18: with the hard pool and a limit that is unset or at least 1, the get()
\* of the upload's commit (the file's own channel being the only one checked
\* out) is never left parked behind the file's channel, and the upload never
\* ends with TimeoutError.
C18_CommitNotBlockedByItself ==
    (upload /\ policy = "hard" /\ max_channels # 0) =>
        /\ pc[Mover] # "parked"
        /\ result # "TimeoutError"

\* C20: when _cp_file failed, _mv's source stays in place, and the error of
\* the copy is what _mv ends with.
C20_SourceKeptWhenCopyFails ==
    cp = "failed" =>
        /\ src
        /\ fpc = "done" => result = "CopyError"

=============================================================================
